---- MODULE Spec2Model ----
(***************************************************************************)
(* Model of langkit/expressions.py: the unresolved expression tree and its *)
(* sugar, the mutation guard (Frozable), the scope context (Self, Vars,    *)
(* the current property) and the resolver (construct / Property.render).   *)
(***************************************************************************)
EXTENDS Integers, Sequences, FiniteSets, TLC

VARIABLES
    heap,       \* the AbstractExpression objects created so far, by identity
    reg,        \* Vars.vars: induction variable name -> object identity
    bind_stack, \* Vars.bind_stack: sequence of <<variable, type>>
    self_type,  \* Self._type
    current,    \* Property.__current_property__ (0 is None)
    props,      \* the Property objects
    ctx,        \* context managers the client code is inside of, innermost last
    last        \* outcome of the last operation

vars == <<heap, reg, bind_stack, self_type, current, props, ctx, last>>

----------------------------------------------------------------------------
(* Bounds *)

MaxNodes == 3       \* objects on the heap, Self and Var included
MaxCtx == 2         \* nesting depth of the client's with statements
MaxCollBuilt == 2    \* expressions built under SpecColl and SpecTemps, one inside the other
MaxTypedNodes == 9  \* objects on the heap under SpecTypes, which starts with 8
MaxOpsBuilt == 2    \* expressions built under SpecOps, one on the other
MaxVars == 3        \* variables in the namespaces at which the client stops allocating

----------------------------------------------------------------------------
(* The Type Catalogue: langkit.compiled_types and langkit.utils.           *)

T(b) == [b |-> b, w |-> <<>>]
NoneType == T("None")
CompiledType == T("CompiledType")
Struct == T("Struct")
ASTNode == T("ASTNode")
FooNode == T("FooNode")
NodeA == T("A")
NodeB == T("B")
BoolType == T("BoolType")
LongType == T("LongType")
StructA == T("StructA")

list_type(t) == [b |-> t.b, w |-> <<"list">> \o t.w]
array_type(t) == [b |-> t.b, w |-> <<"array">> \o t.w]

\* the base class of each class of the catalogue
Base(b) ==
    CASE b = "Struct" -> "CompiledType"
      [] b = "ASTNode" -> "Struct"
      [] b = "FooNode" -> "ASTNode"
      [] b = "A" -> "FooNode"
      [] b = "B" -> "FooNode"
      [] b = "BoolType" -> "CompiledType"
      [] b = "LongType" -> "CompiledType"
      [] b = "StructA" -> "Struct"
      [] OTHER -> "object"

RECURSIVE Mro(_)
Mro(b) == IF b = "object" THEN <<>> ELSE <<b>> \o Mro(Base(b))

InSeq(x, s) == \E i \in 1..Len(s) : s[i] = x

\* Python's issubclass on the classes of the catalogue
issubclass(x, y) ==
    \/ x = y
    \/ /\ x.w = <<>>
       /\ y.w = <<>>
       /\ InSeq(y.b, Mro(x.b))
    \/ /\ x.w # <<>>
       /\ y = CompiledType

is_list_type(t) == t.w # <<>> /\ Head(t.w) = "list"
is_array_type(t) == t.w # <<>> /\ Head(t.w) = "array"
element_type(t) == [b |-> t.b, w |-> Tail(t.w)]

\* langkit.utils.common_ancestor: the nearest class both derive from
RECURSIVE FirstIn(_, _)
FirstIn(s, t) ==
    IF s = <<>> THEN "object"
    ELSE IF InSeq(Head(s), t) THEN Head(s) ELSE FirstIn(Tail(s), t)

common_ancestor(x, y) == T(FirstIn(Mro(x.b), Mro(y.b)))

\* get_abstract_fields_dict: the full field table of a type, inherited included
FooNodeFields ==
    [flag |-> BoolType, num |-> LongType, a |-> NodeA, b |-> NodeB,
     kids |-> list_type(NodeA), bs |-> list_type(NodeB)]

get_abstract_fields_dict(t) ==
    IF t.w = <<>> /\ InSeq("FooNode", Mro(t.b)) THEN FooNodeFields ELSE <<>>

\* names.Name.from_lower('f_' + name)
from_lower_f(name) == <<"f", name>>

\* struct_type.get_fields(): declared field name -> type
get_fields(t) ==
    IF t = StructA
    THEN (from_lower_f("x") :> LongType) @@ (from_lower_f("n") :> FooNode)
    ELSE <<>>

----------------------------------------------------------------------------
(* The heap of unresolved nodes.  attrs holds the instance attributes      *)
(* whose value is an AbstractExpression; args and kw hold the expressions  *)
(* kept inside a tuple or a dict attribute.                                *)

Node(kind, attrs, args, kw, name, ty, concat) ==
    [kind |-> kind, frozen |-> FALSE, attrs |-> attrs, args |-> args,
     kw |-> kw, name |-> name, ty |-> ty, concat |-> concat]

NoAttrs == <<>>

SelfId == 1
VarId == 2

PlaceHolderSingleton == Node("PlaceHolder", NoAttrs, <<>>, <<>>, "Self", NoneType, FALSE)
DefaultInductionVariableSingleton ==
    Node("DefaultInductionVariable", NoAttrs, <<>>, <<>>, "", NoneType, FALSE)
InductionVariable(name) ==
    Node("InductionVariable", NoAttrs, <<>>, <<>>, name, NoneType, FALSE)

Ids(h) == 1..Len(h)

Range(f) == {f[k] : k \in DOMAIN f}

\* the objects a node holds directly in its __dict__
DictNodes(h, n) == Range(h[n].attrs)

\* the objects a node owns: those, and the ones inside its tuple and dict
Owned(h, n) == Range(h[n].attrs) \cup Range(h[n].args) \cup Range(h[n].kw)

----------------------------------------------------------------------------
(* Frozable *)

\* Frozable.freeze: set _frozen, then freeze every Frozable value of __dict__
RECURSIVE FreezeAll(_, _)
FreezeAll(h, todo) ==
    IF todo = {} THEN h
    ELSE LET n == CHOOSE m \in todo : TRUE
         IN  FreezeAll([h EXCEPT ![n].frozen = TRUE],
                       (todo \ {n}) \cup DictNodes(h, n))

freeze(h, n) == FreezeAll(h, {n})

\* the wrapper of protect without its test of _frozen
protect_unchecked(h, n) == FALSE

\* Frozable.protect: the wrapper raises when the object is frozen
protect(h, n) == h[n].frozen

----------------------------------------------------------------------------
(* Constructors of the unresolved nodes.  Each gives the heap and the      *)
(* registry after the call, and the new object (0 when it raised).         *)

Built(h, r, id) == [ok |-> TRUE, err |-> "", h |-> h, reg |-> r, id |-> id]
Raised(h, r, err) == [ok |-> FALSE, err |-> err, h |-> h, reg |-> r, id |-> 0]

Alloc(h, r, node) == Built(Append(h, node), r, Len(h) + 1)

FieldAccess(h, r, receiver, field) ==
    Alloc(h, r, Node("FieldAccess", [receiver |-> receiver], <<>>, <<>>,
                     field, NoneType, FALSE))

OpCall(h, r, called, args, kwargs) ==
    Alloc(h, r, Node("OpCall", [called |-> called], args, kwargs,
                     "", NoneType, FALSE))

BinaryBooleanOperator(h, r, kind, lhs, rhs) ==
    Alloc(h, r, Node("BinaryBooleanOperator", [lhs |-> lhs, rhs |-> rhs],
                     <<>>, <<>>, kind, NoneType, FALSE))

Cast(h, r, expr, astnode) ==
    IF ~issubclass(astnode, ASTNode) THEN Raised(h, r, "AssertionError")
    ELSE Alloc(h, r, Node("Cast", [expr |-> expr], <<>>, <<>>, "", astnode, FALSE))

IsA(h, r, expr, astnode) ==
    IF ~issubclass(astnode, ASTNode) THEN Raised(h, r, "AssertionError")
    ELSE Alloc(h, r, Node("IsA", [expr |-> expr], <<>>, <<>>, "", astnode, FALSE))

Eq(h, r, lhs, rhs) ==
    Alloc(h, r, Node("Eq", [lhs |-> lhs, rhs |-> rhs], <<>>, <<>>,
                     "", NoneType, FALSE))

If(h, r, cond, then, else_then) ==
    Alloc(h, r, Node("If", [cond |-> cond, then |-> then, else_then |-> else_then],
                     <<>>, <<>>, "", NoneType, FALSE))

IsNull(h, r, expr) ==
    Alloc(h, r, Node("IsNull", [expr |-> expr], <<>>, <<>>, "", NoneType, FALSE))

Not(h, r, expr) ==
    Alloc(h, r, Node("Not", [expr |-> expr], <<>>, <<>>, "", NoneType, FALSE))

New(h, r, struct_type, field_values, iteritems) ==
    IF ~(issubclass(struct_type, Struct) /\ ~issubclass(struct_type, ASTNode))
    THEN Raised(h, r, "AssertionError")
    ELSE Alloc(h, r, Node("New", NoAttrs, <<>>, field_values, "", struct_type, FALSE)
                         @@ [iteritems |-> iteritems])

\* the attributes CollectionExpression.__init__ sets; None is no Frozable
Opt(key, id) == IF id = 0 THEN <<>> ELSE key :> id

CollectionAttrs(expr, collection, induction_var) ==
    [expr |-> expr, collection |-> collection] @@ Opt("induction_var", induction_var)

Quantifier(h, r, kind, collection, predicate, induction_var) ==
    Alloc(h, r, Node("Quantifier",
                     CollectionAttrs(predicate, collection, induction_var),
                     <<>>, <<>>, kind, NoneType, FALSE))

Map(h, r, induction_var, expr, collection, filter_expr, concat) ==
    Alloc(h, r, Node("Map",
                     CollectionAttrs(expr, collection, induction_var)
                         @@ Opt("filter_expr", filter_expr),
                     <<>>, <<>>, "", NoneType, concat))

\* InductionVariablesSingleton._create_var: memoized by name
create_var(h, r, name) ==
    IF name \in DOMAIN r THEN Built(h, r, r[name])
    ELSE Built(Append(h, InductionVariable(name)), r @@ (name :> Len(h) + 1),
               Len(h) + 1)

create_default(h, r) == create_var(h, r, "Item")

\* names.Name('I') + names.Name.from_lower(name)
IName(name) ==
    CASE name = "membership_test_item" -> "I_Membership_Test_Item"
      [] name = "x" -> "I_X"
      [] OTHER -> "I_Y"

\* InductionVariablesSingleton.__getattr__
Vars_getattr(h, r, name) == create_var(h, r, IName(name))

\* Contains.__init__: Vars.membership_test_item.equals(item) goes through the
\* protected __getattr__ of the registry's variable
Contains(h, r, collection, item) ==
    LET v == Vars_getattr(h, r, "membership_test_item")
    IN  IF protect(v.h, v.id) THEN Raised(v.h, v.reg, "IllegalMutation")
        ELSE LET e == Eq(v.h, v.reg, v.id, item)
             IN  Alloc(e.h, e.reg,
                       Node("Contains",
                            [item |-> item]
                                @@ CollectionAttrs(e.id, collection, v.id),
                            <<>>, <<>>, "", NoneType, FALSE))

----------------------------------------------------------------------------
(* The sugar: AbstractExpression.__getattr__, __call__, __or__, __and__.   *)

direct_constructors == {"is_null"}
constructors ==
    {"all", "any", "cast", "contains", "equals", "filter", "is_a", "map", "mapcat"}

\* self.attr for a name that is no constructor: is_null or a field access
getattr_plain(h, r, self, attr) ==
    IF protect(h, self) THEN Raised(h, r, "IllegalMutation")
    ELSE IF attr \in direct_constructors THEN IsNull(h, r, self)
    ELSE FieldAccess(h, r, self, attr)

\* self.attr(...) for a constructor name: a, b are the operands (0 is None),
\* ty the type operand, v the induction variable (0 is None)
getattr_call(h, r, self, attr, a, b, ty, v) ==
    IF protect(h, self) THEN Raised(h, r, "IllegalMutation")
    ELSE CASE attr = "all" -> Quantifier(h, r, "all", self, a, v)
           [] attr = "any" -> Quantifier(h, r, "any", self, a, v)
           [] attr = "cast" -> Cast(h, r, self, ty)
           [] attr = "contains" -> Contains(h, r, self, a)
           [] attr = "equals" -> Eq(h, r, self, a)
           [] attr = "filter" ->
                Map(h, r, v, IF v # 0 THEN v ELSE VarId, self, a, FALSE)
           [] attr = "is_a" -> IsA(h, r, self, ty)
           [] attr = "map" -> Map(h, r, v, a, self, b, FALSE)
           [] attr = "mapcat" -> Map(h, r, v, a, self, b, TRUE)

call(h, r, self, args, kwargs) ==
    IF protect(h, self) THEN Raised(h, r, "IllegalMutation")
    ELSE OpCall(h, r, self, args, kwargs)

or(h, r, self, other) ==
    IF protect(h, self) THEN Raised(h, r, "IllegalMutation")
    ELSE BinaryBooleanOperator(h, r, "or", self, other)

and(h, r, self, other) ==
    IF protect(h, self) THEN Raised(h, r, "IllegalMutation")
    ELSE BinaryBooleanOperator(h, r, "and", self, other)

----------------------------------------------------------------------------
(* Resolved expressions: records carrying their own type.                  *)

NoExpr == [k |-> "None", type |-> NoneType]
VarExpr(type, name) == [k |-> "VarExpr", type |-> type, name |-> name]
FieldAccessExpr(receiver_expr, field, type) ==
    [k |-> "FieldAccessExpr", type |-> type, receiver_expr |-> receiver_expr,
     field |-> field]
CastExpr(expr, astnode) == [k |-> "CastExpr", type |-> astnode, expr |-> expr]
EqExpr(lhs, rhs) == [k |-> "EqExpr", type |-> BoolType, lhs |-> lhs, rhs |-> rhs]
IsAExpr(expr, astnode) ==
    [k |-> "IsAExpr", type |-> BoolType, expr |-> expr, astnode |-> astnode]
LiteralExpr(literal, type) == [k |-> "LiteralExpr", type |-> type, literal |-> literal]
NotExpr(expr) == [k |-> "NotExpr", type |-> BoolType, expr |-> expr]
NewExpr(struct_type, field_values) ==
    [k |-> "NewExpr", type |-> struct_type, field_values |-> field_values]

\* the order of names.Name values, on the lower-case form
name_lt(a, b) ==
    LET lower == <<"n", "x", "z">>
        at(name) == CHOOSE i \in 1..Len(lower) : lower[i] = name[2]
    IN  at(a) < at(b)

RECURSIVE sorted(_)
sorted(keys) ==
    IF keys = {} THEN <<>>
    ELSE LET least == CHOOSE k \in keys : \A j \in keys \ {k} : name_lt(k, j)
         IN  <<least>> \o sorted(keys \ {least})

\* NewExpr._iter_ordered without sorted: the pairs in a dict's own order
iter_unsorted(e) ==
    [i \in 1..Len(sorted(DOMAIN e.field_values)) |->
        <<sorted(DOMAIN e.field_values)[Len(sorted(DOMAIN e.field_values)) + 1 - i],
          e.field_values[sorted(DOMAIN e.field_values)
                             [Len(sorted(DOMAIN e.field_values)) + 1 - i]]>>]

\* NewExpr._iter_ordered: the (name, value) pairs, by sorted name
iter_ordered(e) ==
    [i \in 1..Len(sorted(DOMAIN e.field_values)) |->
        <<sorted(DOMAIN e.field_values)[i],
          e.field_values[sorted(DOMAIN e.field_values)[i]]>>]

\* NewExpr.render_pre: the values whose preambles are emitted, in order
NewExpr_render_pre(e) == [i \in DOMAIN iter_ordered(e) |-> iter_ordered(e)[i][2]]

\* NewExpr.render_expr: the name => value associations, in order
NewExpr_render_expr(e) == iter_ordered(e)

----------------------------------------------------------------------------
(* The resolution state threaded through construct: the heap and registry  *)
(* (bind_induction_var writes to them), the bind stack, Self's type, the   *)
(* current property and the local variables of every property.             *)

Ok(e, st) == [ok |-> TRUE, err |-> "", e |-> e, st |-> st,
              missing |-> {}, unknown |-> {}]
Fail(err, st) == [ok |-> FALSE, err |-> err, e |-> NoExpr, st |-> st,
                  missing |-> {}, unknown |-> {}]
FailFields(missing, unknown, st) ==
    [ok |-> FALSE, err |-> "StructFieldSetError", e |-> NoExpr, st |-> st,
     missing |-> missing, unknown |-> unknown]

\* names.Name(word): a name is the sequence of its words, and a + b is the
\* words of a followed by those of b
Name(word) == <<word>>

\* LocalVars.__call__: the loop that searches a free name, entered with
\* name = orig_name and i = 0
RECURSIVE FreeSuffix(_, _, _, _)
FreeSuffix(local_vars, orig_name, name, i) ==
    IF name \in DOMAIN local_vars
    THEN FreeSuffix(local_vars, orig_name,
                    orig_name \o Name(ToString(i + 1)), i + 1)
    ELSE name

\* LocalVars.__call__ without the assertion on create_unique
LocalVars_call_unasserted(local_vars, name, type, create_unique) ==
    LET free == FreeSuffix(local_vars, name, name, 0)
    IN  [ok |-> TRUE, local_vars |-> local_vars @@ (free :> type), name |-> free]

\* LocalVars.__call__: local_vars maps each name to the type of its variable
LocalVars_call(local_vars, name, type, create_unique) ==
    IF create_unique /\ name \in DOMAIN local_vars
    THEN [ok |-> FALSE, local_vars |-> local_vars, name |-> name]
    ELSE LET free == FreeSuffix(local_vars, name, name, 0)
         IN  [ok |-> TRUE, local_vars |-> local_vars @@ (free :> type),
              name |-> free]

\* Property.get().vars(...) taking the namespace of the first property
\* whatever the current one is
AllocTemp_first(st, name, type) ==
    IF st.current = 0 THEN [ok |-> FALSE, st |-> st, name |-> Name(name)]
    ELSE LET a == LocalVars_call(st.lv[1], Name(name), type, FALSE)
         IN  [ok |-> TRUE, name |-> a.name,
              st |-> [st EXCEPT !.lv[1] = a.local_vars]]

\* Property.get().vars(name, type, create_unique=False) from a resolved node
AllocTemp(st, name, type) ==
    IF st.current = 0 THEN [ok |-> FALSE, st |-> st, name |-> Name(name)]
    ELSE LET a == LocalVars_call(st.lv[st.current], Name(name), type, FALSE)
         IN  [ok |-> TRUE, name |-> a.name,
              st |-> [st EXCEPT !.lv[st.current] = a.local_vars]]

IfExpr(cond, then, else_then, rtype, st) ==
    LET a == AllocTemp(st, "Result", rtype)
    IN  IF ~a.ok THEN Fail("AttributeError", st)
        ELSE Ok([k |-> "IfExpr", type |-> rtype, cond |-> cond, then |-> then,
                 else_then |-> else_then, result_var |-> a.name], a.st)

\* MapExpr.__init__ taking the body's type as the element type even when
\* concat is set
MapExpr_unflattened(induction_var, expr, collection, filter, concat, st) ==
    LET a == AllocTemp(st, "Map", array_type(expr.type))
    IN  IF ~a.ok THEN Fail("AttributeError", st)
        ELSE Ok([k |-> "MapExpr", type |-> array_type(expr.type),
                 induction_var |-> induction_var, expr |-> expr,
                 collection |-> collection, filter |-> filter,
                 concat |-> concat, array_var |-> a.name], a.st)

MapExpr(induction_var, expr, collection, filter, concat, st) ==
    LET elt == IF concat THEN element_type(expr.type) ELSE expr.type
        a == AllocTemp(st, "Map", array_type(elt))
    IN  IF ~a.ok THEN Fail("AttributeError", st)
        ELSE Ok([k |-> "MapExpr", type |-> array_type(elt),
                 induction_var |-> induction_var, expr |-> expr,
                 collection |-> collection, filter |-> filter,
                 concat |-> concat, array_var |-> a.name], a.st)

QuantifierExpr(kind, collection, expr, induction_var, st) ==
    LET a == AllocTemp(st, "Result", BoolType)
    IN  IF ~a.ok THEN Fail("AttributeError", st)
        ELSE Ok([k |-> "QuantifierExpr", type |-> BoolType, kind |-> kind,
                 collection |-> collection, expr |-> expr,
                 induction_var |-> induction_var, result_var |-> a.name], a.st)

\* get_type without reversed: the outermost entry for var
RECURSIVE get_type_outermost(_, _)
get_type_outermost(stack, var) ==
    IF stack = <<>> THEN NoneType
    ELSE IF stack[1][1] = var THEN stack[1][2]
    ELSE get_type_outermost(Tail(stack), var)

\* InductionVariablesSingleton.get_type: the innermost entry for var
RECURSIVE get_type(_, _)
get_type(stack, var) ==
    IF stack = <<>> THEN NoneType
    ELSE IF stack[Len(stack)][1] = var THEN stack[Len(stack)][2]
    ELSE get_type(SubSeq(stack, 1, Len(stack) - 1), var)

IsBound(stack, var) == \E i \in 1..Len(stack) : stack[i][1] = var

\* InductionVariable.construct
InductionVariable_construct(st, var) ==
    IF ~IsBound(st.stack, var) THEN Fail("KeyError", st)
    ELSE Ok(VarExpr(get_type(st.stack, var), st.h[var].name), st)

\* PlaceHolderSingleton.construct; VarExpr asserts that the type is a type
PlaceHolder_construct(st, n) ==
    IF st.self_type = NoneType THEN Fail("TypeError", st)
    ELSE Ok(VarExpr(st.self_type, st.h[n].name), st)

\* DefaultInductionVariableSingleton.construct: Vars.default is bind_stack[-1]
Default_construct(st) ==
    IF st.stack = <<>> THEN Fail("IndexError", st)
    ELSE InductionVariable_construct(st, st.stack[Len(st.stack)][1])

----------------------------------------------------------------------------
(* The type rules of construct, given the resolved operands.               *)

\* Eq.construct without the assertion of its else branch
Eq_construct_unasserted(lhs, rhs, st) ==
    IF issubclass(ASTNode, lhs.type)
    THEN IF issubclass(lhs.type, rhs.type)
         THEN Ok(EqExpr(CastExpr(lhs, rhs.type), rhs), st)
         ELSE IF issubclass(rhs.type, lhs.type)
         THEN Ok(EqExpr(lhs, CastExpr(rhs, lhs.type)), st)
         ELSE Fail("TypeMismatch", st)
    ELSE Ok(EqExpr(lhs, rhs), st)

\* Eq.construct, from the test on lhs.type on
Eq_construct(lhs, rhs, st) ==
    IF issubclass(ASTNode, lhs.type)
    THEN IF issubclass(lhs.type, rhs.type)
         THEN Ok(EqExpr(CastExpr(lhs, rhs.type), rhs), st)
         ELSE IF issubclass(rhs.type, lhs.type)
         THEN Ok(EqExpr(lhs, CastExpr(rhs, lhs.type)), st)
         ELSE Fail("TypeMismatch", st)
    ELSE IF lhs.type = rhs.type THEN Ok(EqExpr(lhs, rhs), st)
         ELSE Fail("TypeMismatch", st)

\* If.construct with then's type for rtype in both branches
If_construct_then_type(cond, then, else_then, st) ==
    IF issubclass(then.type, ASTNode)
    THEN IF ~issubclass(else_then.type, ASTNode) THEN Fail("TypeMismatch", st)
         ELSE IfExpr(cond, then, else_then, then.type, st)
    ELSE IF then.type # else_then.type THEN Fail("TypeMismatch", st)
         ELSE IfExpr(cond, then, else_then, then.type, st)

\* If.construct, from the test on then.type on
If_construct(cond, then, else_then, st) ==
    IF issubclass(then.type, ASTNode)
    THEN IF ~issubclass(else_then.type, ASTNode) THEN Fail("TypeMismatch", st)
         ELSE IfExpr(cond, then, else_then,
                     common_ancestor(then.type, else_then.type), st)
    ELSE IF then.type # else_then.type THEN Fail("TypeMismatch", st)
         ELSE IfExpr(cond, then, else_then, then.type, st)

\* BinaryBooleanOperator.construct building the conditional of AND for
\* either kind
BinaryBooleanOperator_construct_and(kind, lhs, rhs, st) ==
    IF lhs.type # BoolType \/ rhs.type # BoolType THEN Fail("TypeMismatch", st)
    ELSE IfExpr(lhs, rhs, LiteralExpr("False", BoolType), BoolType, st)

\* BinaryBooleanOperator.construct, from the assertions on
BinaryBooleanOperator_construct(kind, lhs, rhs, st) ==
    IF lhs.type # BoolType \/ rhs.type # BoolType THEN Fail("TypeMismatch", st)
    ELSE IF kind = "and"
    THEN IfExpr(lhs, rhs, LiteralExpr("False", BoolType), BoolType, st)
    ELSE IfExpr(lhs, LiteralExpr("True", BoolType), rhs, BoolType, st)

\* FieldAccess.construct without its assertion: to_get is None when the
\* name is missing
FieldAccess_construct_unasserted(receiver_expr, field, st) ==
    LET fields == get_abstract_fields_dict(receiver_expr.type)
    IN  IF field \notin DOMAIN fields
        THEN Ok(FieldAccessExpr(receiver_expr, field, NoneType), st)
        ELSE Ok(FieldAccessExpr(receiver_expr, field, fields[field]), st)

\* FieldAccess.construct, from the lookup on
FieldAccess_construct(receiver_expr, field, st) ==
    LET fields == get_abstract_fields_dict(receiver_expr.type)
    IN  IF field \notin DOMAIN fields THEN Fail("UnresolvedField", st)
        ELSE Ok(FieldAccessExpr(receiver_expr, field, fields[field]), st)

\* New.construct, from required_fields on
New_construct(struct_type, provided_fields, st) ==
    LET required_fields == get_fields(struct_type)
        missing == DOMAIN required_fields \ DOMAIN provided_fields
        unknown == DOMAIN provided_fields \ DOMAIN required_fields
    IN  IF missing # {} THEN FailFields(missing, {}, st)
        ELSE IF unknown # {} THEN FailFields({}, unknown, st)
        ELSE IF \E name \in DOMAIN provided_fields :
                    ~issubclass(provided_fields[name].type, required_fields[name])
        THEN Fail("TypeMismatch", st)
        ELSE Ok(NewExpr(struct_type, provided_fields), st)

\* CollectionExpression.bind_induction_var, and entering the context manager
\* of InductionVariablesSingleton.bind
bind_induction_var(st, n, type) ==
    IF "induction_var" \in DOMAIN st.h[n].attrs
    THEN [st EXCEPT !.stack = Append(@, <<st.h[n].attrs.induction_var, type>>)]
    ELSE LET c == create_default(st.h, st.reg)
         IN  [st EXCEPT
                 !.h = [c.h EXCEPT ![n].attrs = @ @@ ("induction_var" :> c.id)],
                 !.reg = c.reg,
                 !.stack = Append(@, <<c.id, type>>)]

\* leaving that context manager without an exception
unbind_induction_var(st) ==
    [st EXCEPT !.stack = SubSeq(@, 1, Len(@) - 1)]

----------------------------------------------------------------------------
(* AbstractExpression.construct, by kind of node.  A failure carries the   *)
(* state at the point where the exception was raised.  Each construct      *)
(* method is cut at the calls it makes to construct: the operator that     *)
(* follows a call gets the call's result.                                   *)

RECURSIVE construct(_, _)

IsCollection(type) == is_list_type(type) \/ is_array_type(type)

\* construct_collection asserting once the induction variable is bound
collection_checked_late(c) ==
    IF ~c.ok THEN c
    ELSE IF ~IsCollection(c.e.type)
    THEN Fail("InvalidCollection",
              [c.st EXCEPT !.stack = Append(@, <<VarId, NoneType>>)])
    ELSE c

\* CollectionExpression.construct_collection, after collection.construct()
collection_checked(c) ==
    IF ~c.ok THEN c
    ELSE IF ~IsCollection(c.e.type) THEN Fail("InvalidCollection", c.st)
    ELSE c

construct_collection(n, st) ==
    collection_checked(construct(st.h[n].attrs.collection, st))

\* Map.construct
Map_filtered(nd, c, iv, e, f) ==
    IF ~f.ok THEN f
    ELSE IF f.e.type # BoolType THEN Fail("TypeMismatch", f.st)
    ELSE MapExpr(iv.e, e.e, c.e, f.e, nd.concat, unbind_induction_var(f.st))

Map_mapped(nd, c, iv, e) ==
    IF ~e.ok THEN e
    ELSE IF nd.concat /\ ~IsCollection(e.e.type) THEN Fail("TypeMismatch", e.st)
    ELSE IF "filter_expr" \in DOMAIN nd.attrs
    THEN Map_filtered(nd, c, iv, e, construct(nd.attrs.filter_expr, e.st))
    ELSE MapExpr(iv.e, e.e, c.e, NoExpr, nd.concat, unbind_induction_var(e.st))

Map_var(nd, c, iv) ==
    IF ~iv.ok THEN iv ELSE Map_mapped(nd, c, iv, construct(nd.attrs.expr, iv.st))

Map_bound(n, c, st1) ==
    Map_var(st1.h[n], c, construct(st1.h[n].attrs.induction_var, st1))

Map_collection(n, c) ==
    IF ~c.ok THEN c
    ELSE Map_bound(n, c, bind_induction_var(c.st, n, element_type(c.e.type)))

Map_construct(n, st) == Map_collection(n, construct_collection(n, st))

\* Quantifier.construct
Quantifier_predicate(nd, c, iv, e) ==
    IF ~e.ok THEN e
    ELSE QuantifierExpr(nd.name, c.e, e.e, iv.e, unbind_induction_var(e.st))

Quantifier_var(nd, c, iv) ==
    IF ~iv.ok THEN iv
    ELSE Quantifier_predicate(nd, c, iv, construct(nd.attrs.expr, iv.st))

Quantifier_bound(n, c, st1) ==
    Quantifier_var(st1.h[n], c, construct(st1.h[n].attrs.induction_var, st1))

Quantifier_collection(n, c) ==
    IF ~c.ok THEN c
    ELSE Quantifier_bound(n, c, bind_induction_var(c.st, n, element_type(c.e.type)))

Quantifier_construct(n, st) == Quantifier_collection(n, construct_collection(n, st))

\* Contains.construct
Contains_item(c, iv, item) ==
    IF ~item.ok THEN item
    ELSE QuantifierExpr("any", c.e, EqExpr(iv.e, item.e), iv.e, item.st)

Contains_var(nd, c, iv) ==
    IF ~iv.ok THEN iv
    ELSE Contains_item(c, iv, construct(nd.attrs.item, unbind_induction_var(iv.st)))

Contains_bound(n, c, st1) ==
    Contains_var(st1.h[n], c, construct(st1.h[n].attrs.induction_var, st1))

Contains_collection(n, c) ==
    IF ~c.ok THEN c
    ELSE Contains_bound(n, c, bind_induction_var(c.st, n, element_type(c.e.type)))

Contains_construct(n, st) == Contains_collection(n, construct_collection(n, st))

\* FieldAccess.construct
FieldAccess_receiver(nd, r) ==
    IF ~r.ok THEN r ELSE FieldAccess_construct(r.e, nd.name, r.st)

\* Cast.construct
Cast_construct(nd, e) ==
    IF ~e.ok THEN e
    ELSE IF ~issubclass(e.e.type, ASTNode) THEN Fail("TypeMismatch", e.st)
    ELSE Ok(CastExpr(e.e, nd.ty), e.st)

\* IsA.construct
IsA_construct(nd, e) ==
    IF ~e.ok THEN e
    ELSE IF ~issubclass(e.e.type, ASTNode) THEN Fail("TypeMismatch", e.st)
    ELSE Ok(IsAExpr(e.e, nd.ty), e.st)

\* IsNull.construct without its assertion
IsNull_construct_unasserted(e) ==
    IF ~e.ok THEN e
    ELSE Ok(EqExpr(e.e, LiteralExpr("null", ASTNode)), e.st)

\* IsNull.construct
IsNull_construct(e) ==
    IF ~e.ok THEN e
    ELSE IF ~issubclass(e.e.type, ASTNode) THEN Fail("TypeMismatch", e.st)
    ELSE Ok(EqExpr(e.e, LiteralExpr("null", ASTNode)), e.st)

\* Not.construct
Not_construct(e) ==
    IF ~e.ok THEN e
    ELSE IF e.e.type # BoolType THEN Fail("TypeMismatch", e.st)
    ELSE Ok(NotExpr(e.e), e.st)

\* Eq.construct, its two calls
Eq_rhs(l, r) == IF ~r.ok THEN r ELSE Eq_construct(l.e, r.e, r.st)

Eq_lhs(nd, l) == IF ~l.ok THEN l ELSE Eq_rhs(l, construct(nd.attrs.rhs, l.st))

\* BinaryBooleanOperator.construct, its two calls
BinaryBooleanOperator_rhs(nd, l, r) ==
    IF ~r.ok THEN r ELSE BinaryBooleanOperator_construct(nd.name, l.e, r.e, r.st)

BinaryBooleanOperator_lhs(nd, l) ==
    IF ~l.ok THEN l
    ELSE BinaryBooleanOperator_rhs(nd, l, construct(nd.attrs.rhs, l.st))

\* If.construct, its three calls
If_else(c, t, e) == IF ~e.ok THEN e ELSE If_construct(c.e, t.e, e.e, e.st)

If_then(nd, c, t) ==
    IF ~t.ok THEN t ELSE If_else(c, t, construct(nd.attrs.else_then, t.st))

If_cond(nd, c) ==
    IF ~c.ok THEN c
    ELSE IF c.e.type # BoolType THEN Fail("TypeMismatch", c.st)
    ELSE If_then(nd, c, construct(nd.attrs.then, c.st))

\* New.construct: provided_fields, one value after the other
RECURSIVE construct_fields(_, _, _, _)

field_constructed(keys, kw, acc, v) ==
    IF ~v.ok THEN v
    ELSE construct_fields(Tail(keys), kw, v.st,
                          acc @@ (from_lower_f(Head(keys)) :> v.e))

construct_fields(keys, kw, st, acc) ==
    IF keys = <<>> THEN Ok(acc, st)
    ELSE IF Head(keys) \notin DOMAIN kw
    THEN construct_fields(Tail(keys), kw, st, acc)
    ELSE field_constructed(keys, kw, acc, construct(kw[Head(keys)], st))

New_fields(nd, f) == IF ~f.ok THEN f ELSE New_construct(nd.ty, f.e, f.st)

construct_node(n, nd, st) ==
    CASE nd.kind = "PlaceHolder" -> PlaceHolder_construct(st, n)
      [] nd.kind = "InductionVariable" -> InductionVariable_construct(st, n)
      [] nd.kind = "DefaultInductionVariable" -> Default_construct(st)
      [] nd.kind = "OpCall" -> Fail("NotImplementedError", st)
      [] nd.kind = "FieldAccess" ->
            FieldAccess_receiver(nd, construct(nd.attrs.receiver, st))
      [] nd.kind = "Cast" -> Cast_construct(nd, construct(nd.attrs.expr, st))
      [] nd.kind = "IsA" -> IsA_construct(nd, construct(nd.attrs.expr, st))
      [] nd.kind = "IsNull" -> IsNull_construct(construct(nd.attrs.expr, st))
      [] nd.kind = "Not" -> Not_construct(construct(nd.attrs.expr, st))
      [] nd.kind = "Eq" -> Eq_lhs(nd, construct(nd.attrs.lhs, st))
      [] nd.kind = "BinaryBooleanOperator" ->
            BinaryBooleanOperator_lhs(nd, construct(nd.attrs.lhs, st))
      [] nd.kind = "If" -> If_cond(nd, construct(nd.attrs.cond, st))
      [] nd.kind = "New" ->
            New_fields(nd, construct_fields(nd.iteritems, nd.kw, st, <<>>))
      [] nd.kind = "Map" -> Map_construct(n, st)
      [] nd.kind = "Quantifier" -> Quantifier_construct(n, st)
      [] nd.kind = "Contains" -> Contains_construct(n, st)

construct(n, st) == construct_node(n, st.h[n], st)

----------------------------------------------------------------------------
(* The scoped bindings and Property.render.  g is the program's state:     *)
(* [h, reg, stack, self_type, current, props].                             *)

NewProperty == [expr |-> 0, constructed_expr |-> NoExpr, vars |-> <<>>,
                rendered |-> FALSE]

\* PlaceHolderSingleton.bind up to its yield
Self_bind(g, type) == [g EXCEPT !.self_type = type]

\* PlaceHolderSingleton.bind after its yield
Self_unbind(g) == [g EXCEPT !.self_type = NoneType]

\* Property.bind without its assertion
Property_bind_unasserted(g, p) == [ok |-> TRUE, g |-> [g EXCEPT !.current = p]]

\* Property.bind up to its yield
Property_bind(g, p) ==
    IF g.current # 0 THEN [ok |-> FALSE, g |-> g]
    ELSE [ok |-> TRUE, g |-> [g EXCEPT !.current = p]]

\* Property.bind after its yield
Property_unbind(g) == [g EXCEPT !.current = 0]

ResolutionState(g) ==
    [h |-> g.h, reg |-> g.reg, stack |-> g.stack, self_type |-> g.self_type,
     current |-> g.current, lv |-> [p \in DOMAIN g.props |-> g.props[p].vars]]

AfterResolution(g, st) ==
    [g EXCEPT !.h = st.h, !.reg = st.reg, !.stack = st.stack,
              !.props = [p \in DOMAIN g.props |->
                            [g.props[p] EXCEPT !.vars = st.lv[p]]]]

Outcome(ok, err, e, missing, unknown, g) ==
    [ok |-> ok, err |-> err, e |-> e, missing |-> missing, unknown |-> unknown,
     g |-> g]

\* Property.render: an exception leaves each context manager at its yield
render_constructed(g1, p, c, g2) ==
    IF ~c.ok THEN Outcome(FALSE, c.err, NoExpr, c.missing, c.unknown, g2)
    ELSE Outcome(TRUE, "", c.e, {}, {},
                 Self_unbind(Property_unbind(
                     [g2 EXCEPT !.props[p].constructed_expr = c.e,
                                !.props[p].rendered = TRUE])))

render_resolve(g1, p, c) == render_constructed(g1, p, c, AfterResolution(g1, c.st))

render_frozen(g1, p) ==
    render_resolve(g1, p, construct(g1.props[p].expr, ResolutionState(g1)))

render_bound(p, b) ==
    IF ~b.ok THEN Outcome(FALSE, "ReentrantBinding", NoExpr, {}, {}, b.g)
    ELSE render_frozen([b.g EXCEPT !.h = freeze(b.g.h, b.g.props[p].expr)], p)

Property_render(g, p, owner_type) ==
    render_bound(p, Property_bind(Self_bind(g, owner_type), p))

----------------------------------------------------------------------------
(* The state machine.                                                      *)

PropIds == {1, 2}
OwnerTypes == {FooNode, NodeA}
FieldNameSets == {{}, {"x"}, {"x", "n"}, {"x", "z"}, {"x", "n", "z"}}

G == [h |-> heap, reg |-> reg, stack |-> bind_stack, self_type |-> self_type,
      current |-> current, props |-> props]

Init ==
    /\ heap = <<PlaceHolderSingleton, DefaultInductionVariableSingleton>>
    /\ reg = <<>>
    /\ bind_stack = <<>>
    /\ self_type = NoneType
    /\ current = 0
    /\ props = [p \in PropIds |-> NewProperty]
    /\ ctx = <<>>
    /\ last = [op |-> "init"]

\* an expression of the DSL is evaluated: r is what the sugar or the
\* constructor gave
Evaluate(how, self, r, max) ==
    /\ Len(r.h) <= max
    /\ heap' = r.h
    /\ reg' = r.reg
    /\ last' = [op |-> "sugar", how |-> how,
                was_frozen |-> heap[self].frozen, raised |-> r.err,
                created |-> Len(r.h) - Len(heap)]
    /\ UNCHANGED <<bind_stack, self_type, current, props, ctx>>

AttrAccess(n, attr, max) ==
    Evaluate("getattr", n, getattr_plain(heap, reg, n, attr), max)

AttrConstructor(n, attr, a, b, ty, v, max) ==
    Evaluate("constructor", n, getattr_call(heap, reg, n, attr, a, b, ty, v), max)

CallSyntax(n, args, kwargs, max) ==
    Evaluate("call", n, call(heap, reg, n, args, kwargs), max)

OrSyntax(n, other, max) == Evaluate("or", n, or(heap, reg, n, other), max)

AndSyntax(n, other, max) == Evaluate("and", n, and(heap, reg, n, other), max)

MakeIf(c, t, e, max) == Evaluate("If", c, If(heap, reg, c, t, e), max)

MakeNot(e, max) == Evaluate("Not", e, Not(heap, reg, e), max)

MakeNew(struct_type, field_values, iteritems, max) ==
    Evaluate("New", SelfId,
             New(heap, reg, struct_type, field_values, iteritems), max)

\* node.freeze()
Freeze(n) ==
    /\ heap' = freeze(heap, n)
    /\ last' = [op |-> "freeze", self |-> n]
    /\ UNCHANGED <<reg, bind_stack, self_type, current, props, ctx>>

\* p = Property(expr)
DefineProperty(p, n) ==
    /\ props[p].expr = 0
    /\ props' = [props EXCEPT ![p].expr = n]
    /\ last' = [op |-> "Property", p |-> p]
    /\ UNCHANGED <<heap, reg, bind_stack, self_type, current, ctx>>

Bindings(g) == [self_type |-> g.self_type, current |-> g.current, stack |-> g.stack]

\* the bindings a failed render of another property found, if the last
\* operation was one
PreFailed(g, p) ==
    IF last.op = "render" /\ ~last.ok /\ last.p # p
    THEN [g EXCEPT !.self_type = last.pre.self_type,
                   !.current = last.pre.current,
                   !.stack = last.pre.stack]
    ELSE g

Rendered(p, owner_type, o, clean) ==
    /\ heap' = o.g.h
    /\ reg' = o.g.reg
    /\ bind_stack' = o.g.stack
    /\ self_type' = o.g.self_type
    /\ current' = o.g.current
    /\ props' = o.g.props
    /\ last' = [op |-> "render", p |-> p, owner_type |-> owner_type,
                ok |-> o.ok, err |-> o.err, e |-> o.e,
                missing |-> o.missing, unknown |-> o.unknown,
                pre |-> Bindings(G),
                follows_failed |-> last.op = "render" /\ ~last.ok /\ last.p # p,
                clean |-> [ok |-> clean.ok, err |-> clean.err, e |-> clean.e]]
    /\ UNCHANGED ctx

\* p.render(owner_type), of a property that was not rendered yet; the client
\* catches what it raises
Render(p, owner_type) ==
    /\ props[p].expr # 0
    /\ ~props[p].rendered
    /\ Rendered(p, owner_type, Property_render(G, p, owner_type),
                Property_render(PreFailed(G, p), p, owner_type))

\* with Self.bind(type): entered
SelfBindEnter(type) ==
    /\ Len(ctx) < MaxCtx
    /\ self_type' = Self_bind(G, type).self_type
    /\ ctx' = Append(ctx, [cm |-> "Self", p |-> 0])
    /\ last' = [op |-> "Self.bind", pre |-> self_type, type |-> type,
                raised |-> FALSE]
    /\ UNCHANGED <<heap, reg, bind_stack, current, props>>

\* with p.bind(): entered, or the assertion failed
PropertyBindEnter(p) ==
    /\ Len(ctx) < MaxCtx
    /\ LET b == Property_bind(G, p)
       IN  /\ current' = b.g.current
           /\ ctx' = IF b.ok THEN Append(ctx, [cm |-> "Property", p |-> p]) ELSE ctx
           /\ last' = [op |-> "Property.bind", pre |-> current, p |-> p,
                       raised |-> ~b.ok]
    /\ UNCHANGED <<heap, reg, bind_stack, self_type, props>>

\* the innermost with statement is left without an exception
Exit ==
    /\ ctx # <<>>
    /\ LET top == ctx[Len(ctx)]
           g == IF top.cm = "Self" THEN Self_unbind(G) ELSE Property_unbind(G)
       IN  /\ self_type' = g.self_type
           /\ current' = g.current
    /\ ctx' = SubSeq(ctx, 1, Len(ctx) - 1)
    /\ last' = [op |-> "exit"]
    /\ UNCHANGED <<heap, reg, bind_stack, props>>

\* the expressions are built, then the property is made of the last one
Building == props[1].expr = 0

\* field_values of a New: the given names, each with a value among nodes
FieldValues(names, nodes) == [names -> nodes]

\* the orders in which a dict of these names may iterate: two of them
Ascending(names) == SelectSeq(<<"n", "x", "z">>, LAMBDA k : k \in names)
Descending(names) == SelectSeq(<<"z", "x", "n">>, LAMBDA k : k \in names)
IterOrders(names) == {Ascending(names), Descending(names)}

\* the operand the DSL's expressions are given under Spec: the expression
\* built last, which is Var at first
Operands(h) == {Len(h)}

\* DSL evaluation and sealing, from the state after import: self is any
\* object, the operands come from Operands
Next ==
    \/ \E n \in Ids(heap), attr \in {"nope", "is_null"} :
            AttrAccess(n, attr, MaxNodes)
    \/ \E n \in Ids(heap), attr \in constructors \ {"cast", "is_a"},
          a \in Operands(heap) :
            AttrConstructor(n, attr, a, 0, NoneType, 0, MaxNodes)
    \/ \E n \in Ids(heap), attr \in {"cast", "is_a"} :
            AttrConstructor(n, attr, 0, 0, NodeA, 0, MaxNodes)
    \/ \E n \in Ids(heap), args \in {<<>>} \cup {<<m>> : m \in Operands(heap)} :
            CallSyntax(n, args, <<>>, MaxNodes)
    \/ \E n \in Ids(heap), kw \in {[key |-> m] : m \in Operands(heap)} :
            CallSyntax(n, <<>>, kw, MaxNodes)
    \/ \E n \in Ids(heap), o \in Operands(heap) : OrSyntax(n, o, MaxNodes)
    \/ \E n \in Ids(heap), o \in Operands(heap) : AndSyntax(n, o, MaxNodes)
    \/ \E c \in Ids(heap), t, e \in Operands(heap) : MakeIf(c, t, e, MaxNodes)
    \/ \E e \in Ids(heap) : MakeNot(e, MaxNodes)
    \/ \E names \in {{"x"}, {"x", "z"}} :
          \E fv \in FieldValues(names, Operands(heap)), it \in IterOrders(names) :
            MakeNew(StructA, fv, it, MaxNodes)
    \/ \E n \in Ids(heap) : Freeze(n)

Spec == Init /\ [][Next]_vars

----------------------------------------------------------------------------
(* Rendering properties and binding the scope context, once the DSL has    *)
(* built Self.kids, Self.nope, Self.kids.map(Self.nope), Self.kids.map(Var) *)

ScopeHeap ==
    LET b1 == FieldAccess(<<PlaceHolderSingleton, DefaultInductionVariableSingleton>>,
                          <<>>, SelfId, "kids")
        b2 == FieldAccess(b1.h, b1.reg, SelfId, "nope")
        b3 == getattr_call(b2.h, b2.reg, b1.id, "map", b2.id, 0, NoneType, 0)
        b4 == getattr_call(b3.h, b3.reg, b1.id, "map", VarId, 0, NoneType, 0)
    IN  b4.h

InitScope ==
    /\ heap = ScopeHeap
    /\ reg = <<>>
    /\ bind_stack = <<>>
    /\ self_type = NoneType
    /\ current = 0
    /\ props = [p \in PropIds |-> NewProperty]
    /\ ctx = <<>>
    /\ last = [op |-> "init"]

NextScope ==
    \/ \E p \in PropIds, n \in Ids(heap) : DefineProperty(p, n)
    \/ \E p \in PropIds, t \in OwnerTypes : Render(p, t)
    \/ \E t \in OwnerTypes : SelfBindEnter(t)
    \/ \E p \in PropIds : PropertyBindEnter(p)
    \/ Exit

SpecScope == InitScope /\ [][NextScope]_vars

----------------------------------------------------------------------------
(* Resolving typed expressions, once the DSL has built Self.flag, Self.num, *)
(* Self.a, Self.b, Self.kids and Self.cast(ASTNode).                        *)

RECURSIVE Leaves(_, _)
Leaves(b, fields) ==
    IF fields = <<>> THEN b
    ELSE Leaves(FieldAccess(b.h, b.reg, SelfId, Head(fields)), Tail(fields))

TypedLeaves ==
    Leaves(Built(<<PlaceHolderSingleton, DefaultInductionVariableSingleton>>, <<>>, 0),
           <<"flag", "num", "a", "b", "kids">>)

TypedHeap ==
    getattr_call(TypedLeaves.h, TypedLeaves.reg, SelfId, "cast", 0, 0, ASTNode, 0).h

InitTypes ==
    /\ heap = TypedHeap
    /\ reg = <<>>
    /\ bind_stack = <<>>
    /\ self_type = NoneType
    /\ current = 0
    /\ props = [p \in PropIds |-> NewProperty]
    /\ ctx = <<>>
    /\ last = [op |-> "init"]

\* the operands under SpecTypes: Self and its fields
TypedOperands == {n \in Ids(TypedHeap) : n # VarId}

Leaf(field) ==
    CHOOSE n \in Ids(TypedHeap) :
        TypedHeap[n].kind = "FieldAccess" /\ TypedHeap[n].name = field

\* the conditions of If: one boolean, one not
Conds == {Leaf("flag"), Leaf("num")}

\* the first operand: any of TypedOperands, or the expression built last
\* once one is built
Receivers(h) == IF Len(h) = Len(TypedHeap) THEN TypedOperands ELSE {Len(h)}

NextTypes ==
    \/ \E n \in Receivers(heap), a \in TypedOperands :
            Building /\ AttrConstructor(n, "equals", a, 0, NoneType, 0, MaxTypedNodes)
    \/ \E c \in Conds, t \in Receivers(heap), e \in TypedOperands :
            Building /\ MakeIf(c, t, e, MaxTypedNodes)
    \/ \E names \in FieldNameSets :
          \E fv \in FieldValues(names, {SelfId, Leaf("num")}),
             it \in IterOrders(names) :
            Building /\ MakeNew(StructA, fv, it, MaxTypedNodes)
    \/ DefineProperty(1, Len(heap))
    \/ \E t \in OwnerTypes : Render(1, t)

SpecTypes == InitTypes /\ [][NextTypes]_vars

----------------------------------------------------------------------------
(* Loops over collections, once the DSL has built Self.kids, Self.num,     *)
(* Var.flag, Var.bs, Var.num, Vars.x and Self.kids.contains(Self.num)      *)

RECURSIVE FieldLeaves(_, _)
FieldLeaves(b, accesses) ==
    IF accesses = <<>> THEN b
    ELSE FieldLeaves(FieldAccess(b.h, b.reg, Head(accesses)[1], Head(accesses)[2]),
                     Tail(accesses))

CollFields ==
    FieldLeaves(Built(<<PlaceHolderSingleton, DefaultInductionVariableSingleton>>,
                      <<>>, 0),
                <<<<SelfId, "kids">>, <<SelfId, "num">>, <<VarId, "flag">>,
                  <<VarId, "bs">>, <<VarId, "num">>>>)

FieldOf(h, receiver, field) ==
    CHOOSE n \in Ids(h) : /\ h[n].kind = "FieldAccess"
                          /\ h[n].attrs.receiver = receiver
                          /\ h[n].name = field

CollVar == Vars_getattr(CollFields.h, CollFields.reg, "x")

CollBuilt ==
    getattr_call(CollVar.h, CollVar.reg, FieldOf(CollVar.h, SelfId, "kids"),
                 "contains", FieldOf(CollVar.h, SelfId, "num"), 0, NoneType, 0)

CollHeap == CollBuilt.h

InitColl ==
    /\ heap = CollHeap
    /\ reg = CollBuilt.reg
    /\ bind_stack = <<>>
    /\ self_type = NoneType
    /\ current = 0
    /\ props = [p \in PropIds |-> NewProperty]
    /\ ctx = <<>>
    /\ last = [op |-> "init"]

Kids == FieldOf(CollHeap, SelfId, "kids")
Num == FieldOf(CollHeap, SelfId, "num")
VarFlag == FieldOf(CollHeap, VarId, "flag")
VarBs == FieldOf(CollHeap, VarId, "bs")
VarNum == FieldOf(CollHeap, VarId, "num")
VarX == CollVar.id

\* no expression was built yet since Init
Fresh(h) == Len(h) = Len(CollHeap)

\* what the client loops over, and the bodies, predicates and items it gives:
\* at first any of the leaves, then the expression built last
Collections(h) == IF Fresh(h) THEN {Kids, VarBs, Num} ELSE {Kids}
Bodies(h) == IF Fresh(h) THEN {VarId, VarFlag, VarBs, Num, VarX} ELSE {Len(h)}
Items(h) == IF Fresh(h) THEN {SelfId, Num, VarId} ELSE {Len(h)}

MaxCollNodes == Len(CollHeap) + MaxCollBuilt

NextColl ==
    \/ \E attr \in {"map", "mapcat"}, c \in Collections(heap), e \in Bodies(heap) :
            Building /\ AttrConstructor(c, attr, e, 0, NoneType, 0, MaxCollNodes)
    \/ \E e \in {VarId, VarFlag} :
            /\ Building
            /\ ~Fresh(heap)
            /\ AttrConstructor(Len(heap), "map", e, 0, NoneType, 0, MaxCollNodes)
    \/ \E e \in Bodies(heap) \ {VarFlag, VarBs, Num, VarX}, f \in {VarFlag, VarNum},
          v \in {0, VarX} :
            Building /\ AttrConstructor(Kids, "map", e, f, NoneType, v, MaxCollNodes)
    \/ \E f \in {VarFlag, VarNum} :
            Building /\ AttrConstructor(Kids, "filter", f, 0, NoneType, 0, MaxCollNodes)
    \/ \E kind \in {"all", "any"}, c \in Collections(heap) \ {VarBs},
          pred \in Bodies(heap) :
            Building /\ AttrConstructor(c, kind, pred, 0, NoneType, 0, MaxCollNodes)
    \/ \E c \in Collections(heap), item \in Items(heap) :
            Building
            /\ AttrConstructor(c, "contains", item, 0, NoneType, 0, MaxCollNodes + 1)
    \/ DefineProperty(1, Len(heap))
    \/ Render(1, FooNode)

SpecColl == InitColl /\ [][NextColl]_vars

----------------------------------------------------------------------------
(* Temporaries (SpecTemps): from the leaves of SpecColl the client builds  *)
(* conditionals, &, |, loops and membership tests, the later ones on the   *)
(* expression built last, gives property 2 an expression on the way and    *)
(* property 1 the last one, and renders both.                              *)

\* the operands: at first Var.flag, then the expression built last
Inner(h) == IF Fresh(h) THEN {VarFlag} ELSE {Len(h)}

NextTemps ==
    \/ \E n \in Inner(heap) : Building /\ AndSyntax(n, VarFlag, MaxCollNodes)
    \/ \E n \in Inner(heap) : Building /\ OrSyntax(n, VarFlag, MaxCollNodes)
    \/ \E t \in {VarNum, VarFlag} : Building /\ MakeIf(VarFlag, t, t, MaxCollNodes)
    \/ \E attr \in {"map", "filter", "all", "any"}, e \in Inner(heap) :
            Building /\ AttrConstructor(Kids, attr, e, 0, NoneType, 0, MaxCollNodes)
    \/ \E item \in {SelfId, VarId} :
            Building
            /\ AttrConstructor(Kids, "contains", item, 0, NoneType, 0, MaxCollNodes + 1)
    \/ Building /\ ~Fresh(heap) /\ DefineProperty(2, Len(heap))
    \/ ~Fresh(heap) /\ DefineProperty(1, Len(heap))
    \/ \E p \in PropIds : Render(p, FooNode)

SpecTemps == InitColl /\ [][NextTemps]_vars

----------------------------------------------------------------------------
(* Operators and field accesses (SpecOps): from the leaves of SpecTypes,   *)
(* the client applies &, |, cast, is_a, is_null and attribute access to a  *)
(* leaf and then to the expression it built, and renders the result.       *)

MaxOpNodes == Len(TypedHeap) + MaxOpsBuilt

\* the attributes the client reads: is_null, three fields of FooNode and a
\* name FooNode does not declare
OpAttrs == {"is_null", "flag", "num", "a", "nope"}

NextOps ==
    \/ \E n \in Receivers(heap), a \in Conds :
            Building /\ AndSyntax(n, a, MaxOpNodes)
    \/ \E n \in Receivers(heap), a \in Conds :
            Building /\ OrSyntax(n, a, MaxOpNodes)
    \/ \E n \in Receivers(heap), t \in {NodeA, NodeB} :
            Building /\ AttrConstructor(n, "cast", 0, 0, t, 0, MaxOpNodes)
    \/ \E n \in Receivers(heap), t \in {NodeA, NodeB} :
            Building /\ AttrConstructor(n, "is_a", 0, 0, t, 0, MaxOpNodes)
    \/ \E n \in Receivers(heap), attr \in OpAttrs :
            Building /\ AttrAccess(n, attr, MaxOpNodes)
    \/ DefineProperty(1, Len(heap))
    \/ \E t \in OwnerTypes : Render(1, t)

SpecOps == InitTypes /\ [][NextOps]_vars

----------------------------------------------------------------------------
(* Local variables (SpecVars): the client and the templates allocate in    *)
(* the namespaces of the properties, and property 1 is If(Self.flag,       *)
(* Self.num, Self.num), whose resolution allocates its Result.             *)

\* the variables of all namespaces
RECURSIVE Allocated(_, _)
Allocated(ps, todo) ==
    IF todo = {} THEN 0
    ELSE LET p == CHOOSE q \in todo : TRUE
         IN  Cardinality(DOMAIN ps[p].vars) + Allocated(ps, todo \ {p})

\* the names asked for: Result, Result_1 and Map
VarNames == {Name("Result"), Name("Result") \o Name("1"), Name("Map")}

\* props[p].vars(name, type, create_unique); the client catches what it
\* raises
Allocate(p, name, type, create_unique) ==
    /\ Allocated(props, PropIds) < MaxVars
    /\ props' = [props EXCEPT ![p].vars =
                    LocalVars_call(@, name, type, create_unique).local_vars]
    /\ last' = [op |-> "vars", p |-> p, name |-> name, type |-> type,
                create_unique |-> create_unique,
                ok |-> LocalVars_call(props[p].vars, name, type, create_unique).ok,
                got |-> LocalVars_call(props[p].vars, name, type, create_unique).name,
                pre |-> [q \in PropIds |-> props[q].vars]]
    /\ UNCHANGED <<heap, reg, bind_stack, self_type, current, ctx>>

NextVars ==
    \/ \E p \in PropIds, name \in VarNames, type \in {BoolType, LongType},
          create_unique \in BOOLEAN :
            Allocate(p, name, type, create_unique)
    \/ Building /\ MakeIf(Leaf("flag"), Leaf("num"), Leaf("num"), Len(TypedHeap) + 1)
    \/ DefineProperty(1, Len(heap))
    \/ Render(1, FooNode)

SpecVars == InitTypes /\ [][NextVars]_vars

----------------------------------------------------------------------------
(* Sealing (Spec)                                                          *)

\* the nodes reachable from the nodes of todo through ownership
RECURSIVE OwnedFrom(_, _, _)
OwnedFrom(h, todo, seen) ==
    IF todo = {} THEN seen
    ELSE LET n == CHOOSE m \in todo : TRUE
         IN  OwnedFrom(h, (todo \cup Owned(h, n)) \ (seen \cup {n}), seen \cup {n})

SugarForms == {"getattr", "constructor", "call", "or", "and"}

\* C1: after freeze() on a node, every node reachable from it through
\* ownership reports frozen, the values of a New's field_values and the
\* arguments of an OpCall included.
C1_SealingIsDeep ==
    last.op = "freeze" =>
        \A m \in OwnedFrom(heap, {last.self}, {}) : heap[m].frozen

\* C2: a sugar operation on a frozen node (attribute access with a recognized
\* or an unrecognized name, call syntax, and, or) raises the illegal-mutation
\* error and creates no object; a frozen node stays frozen in every step.
SealedRejectsSugar ==
    (last.op = "sugar" /\ last.how \in SugarForms /\ last.was_frozen) =>
        (last.raised = "IllegalMutation" /\ last.created = 0)

FrozenStays == \A n \in Ids(heap) : heap[n].frozen => heap'[n].frozen

C2_SealedRejectsMutation == [](SealedRejectsSugar) /\ [][FrozenStays]_vars

C2_Witness ==
    /\ last.op = "sugar"
    /\ last.how = "constructor"
    /\ last.was_frozen
    /\ last.raised = "IllegalMutation"
    /\ \E n \in Ids(heap) : heap[n].frozen /\ heap[n].kind = "FieldAccess"

----------------------------------------------------------------------------
(* Scoped bindings (SpecScope)                                             *)

\* C3: when a render fails, Self's type, the current property and the depth
\* of the bind stack are what they were before the call.
C3_BindingsRestoredOnFailure ==
    (last.op = "render" /\ ~last.ok) =>
        /\ self_type = last.pre.self_type
        /\ current = last.pre.current
        /\ Len(bind_stack) = Len(last.pre.stack)

\* C4: a render that follows the failed render of another property ends as
\* it would have with the bindings that the failed render found: the same
\* success or error, the same resolved expression.
C4_NoLeakIntoNextRender ==
    (last.op = "render" /\ last.follows_failed) =>
        [ok |-> last.ok, err |-> last.err, e |-> last.e] = last.clean

\* C5: Self.bind on a Self that is bound raises and leaves the binding.
C5_SelfBindFailsFast ==
    (last.op = "Self.bind" /\ last.pre # NoneType) =>
        (last.raised /\ self_type = last.pre)

\* C6: Property.bind while a property is current raises, also inside
\* render, and the current property is still the one that was bound.
C6_PropertyBindFailsFast ==
    /\ (last.op = "Property.bind" /\ last.pre # 0) =>
           (last.raised /\ current = last.pre)
    /\ (last.op = "render" /\ last.pre.current # 0) =>
           (~last.ok /\ last.err = "ReentrantBinding" /\ current = last.pre.current)

C6_Witness ==
    /\ last.op = "Property.bind"
    /\ last.pre # 0
    /\ last.p # last.pre
    /\ last.raised
    /\ current = last.pre

----------------------------------------------------------------------------
(* Type rules (SpecTypes).  The operands of the root of the property that  *)
(* was rendered last, resolved under the bindings of that render.          *)

Reached == last.op = "render" /\ last.pre.current = 0

Root == heap[props[last.p].expr]

OperandNode(n) ==
    construct(n, [ResolutionState(G) EXCEPT !.self_type = last.owner_type,
                                            !.current = last.p,
                                            !.stack = last.pre.stack])

Operand(attr) == OperandNode(Root.attrs[attr])

ProvidedNames(nd) == {from_lower_f(key) : key \in DOMAIN nd.kw}

IsNodeType(type) == issubclass(type, ASTNode)

EqResolved(l, r) ==
    /\ Reached
    /\ Root.kind = "Eq"
    /\ Operand("lhs").ok
    /\ Operand("rhs").ok
    /\ Operand("lhs").e.type = l
    /\ Operand("rhs").e.type = r

NodeTypes == {ASTNode, FooNode, NodeA, NodeB}
Types == NodeTypes \cup {BoolType, LongType, list_type(NodeA)}

\* C7: Eq of two node types of which one is a strict subclass of the other
\* resolves, to a boolean EqExpr whose narrower operand is cast to the
\* wider type.
C7_EqUpcasts ==
    \A l, r \in NodeTypes :
        (EqResolved(l, r) /\ l # r /\ (issubclass(l, r) \/ issubclass(r, l))) =>
            /\ last.ok
            /\ last.e.type = BoolType
            /\ last.e = IF issubclass(l, r)
                        THEN EqExpr(CastExpr(Operand("lhs").e, r), Operand("rhs").e)
                        ELSE EqExpr(Operand("lhs").e, CastExpr(Operand("rhs").e, l))

\* C8: Eq fails with a type mismatch on two node types that are not
\* subclasses of one another, and on two different types that are no node
\* types; it does not fail on two equal types.
C8_EqFailures ==
    \A l, r \in Types :
        EqResolved(l, r) =>
            /\ (IsNodeType(l) /\ IsNodeType(r) /\ ~issubclass(l, r) /\ ~issubclass(r, l))
                  => (~last.ok /\ last.err = "TypeMismatch")
            /\ (~IsNodeType(l) /\ ~IsNodeType(r) /\ l # r)
                  => (~last.ok /\ last.err = "TypeMismatch")
            /\ (l = r) => last.ok

C8_Witness ==
    /\ EqResolved(NodeA, NodeB)
    /\ ~last.ok
    /\ last.err = "TypeMismatch"

IfResolved(c, t, e) ==
    /\ Reached
    /\ Root.kind = "If"
    /\ Operand("cond").ok
    /\ Operand("then").ok
    /\ Operand("else_then").ok
    /\ Operand("cond").e.type = c
    /\ Operand("then").e.type = t
    /\ Operand("else_then").e.type = e

\* C9: If fails unless cond is boolean; with then and else of node types its
\* type is their common ancestor; otherwise then and else are of one type,
\* which is the type of the If, or it fails with a type mismatch.
C9_IfTypeRule ==
    \A c, t, e \in Types :
        IfResolved(c, t, e) =>
            IF c # BoolType THEN ~last.ok
            ELSE IF IsNodeType(t) /\ IsNodeType(e)
            THEN last.ok /\ last.e.type = common_ancestor(t, e)
            ELSE IF t = e THEN last.ok /\ last.e.type = t
            ELSE ~last.ok /\ last.err = "TypeMismatch"

C9_Witness ==
    /\ IfResolved(BoolType, NodeA, NodeB)
    /\ last.ok
    /\ last.e.type = FooNode

\* C10: a New whose field names miss a declared field and hold an unknown
\* one fails with one error that reports the missing names and the unknown
\* names.
C10_NewReportsBothSets ==
    (/\ Reached
     /\ Root.kind = "New"
     /\ \A key \in DOMAIN Root.kw : OperandNode(Root.kw[key]).ok
     /\ ProvidedNames(Root) \ DOMAIN get_fields(Root.ty) # {}
     /\ DOMAIN get_fields(Root.ty) \ ProvidedNames(Root) # {}) =>
        /\ ~last.ok
        /\ last.err = "StructFieldSetError"
        /\ last.missing = DOMAIN get_fields(Root.ty) \ ProvidedNames(Root)
        /\ last.unknown = ProvidedNames(Root) \ DOMAIN get_fields(Root.ty)

----------------------------------------------------------------------------
(* Rendering of a struct literal (SpecTypes)                               *)

NewResolved == Reached /\ Root.kind = "New" /\ last.ok

\* the root resolved again, its field_values iterating in another order
Reiterated(order) ==
    construct_node(props[last.p].expr, [Root EXCEPT !.iteritems = order],
                   [ResolutionState(G) EXCEPT !.self_type = last.owner_type,
                                              !.current = last.p,
                                              !.stack = last.pre.stack])

Names(pairs) == [i \in DOMAIN pairs |-> pairs[i][1]]

\* C11: the field assignments of a resolved New, and the preambles of its
\* values, come in the sort order of the field names, each name with the
\* value given for it; the sequence of names is the same in whichever order
\* the names were supplied.
C11_NewOrderIsSorted ==
    NewResolved =>
        LET fields == NewExpr_render_expr(last.e)
        IN  /\ {fields[i][1] : i \in DOMAIN fields} = ProvidedNames(Root)
            /\ Len(fields) = Cardinality(ProvidedNames(Root))
            /\ \A i, j \in DOMAIN fields : i < j => name_lt(fields[i][1], fields[j][1])
            /\ \A i \in DOMAIN fields :
                   fields[i][2] = OperandNode(Root.kw[fields[i][1][2]]).e
            /\ NewExpr_render_pre(last.e) = [i \in DOMAIN fields |-> fields[i][2]]
            /\ \A order \in IterOrders(DOMAIN Root.kw) :
                   /\ Reiterated(order).ok
                   /\ Names(NewExpr_render_expr(Reiterated(order).e)) = Names(fields)

C11_Witness ==
    /\ NewResolved
    /\ Cardinality(DOMAIN Root.kw) = 2
    /\ Root.iteritems = Descending(DOMAIN Root.kw)
    /\ Names(NewExpr_render_expr(last.e)) = <<from_lower_f("n"), from_lower_f("x")>>

----------------------------------------------------------------------------
(* Loops (SpecColl).  The property is rendered once, from the state after  *)
(* import: Before is the state its resolution started in.                  *)

Before ==
    [ResolutionState(G) EXCEPT !.self_type = last.owner_type,
                               !.current = last.p,
                               !.stack = last.pre.stack,
                               !.lv = [p \in PropIds |-> <<>>]]

\* the root, a Contains, resolved as the Quantifier ANY over its collection,
\* its Eq(induction variable, item) and its induction variable
AsQuantifier ==
    Quantifier_construct(props[last.p].expr,
                         [Before EXCEPT !.h[props[last.p].expr].kind = "Quantifier",
                                        !.h[props[last.p].expr].name = "any"])

\* C12: resolving Contains(collection, item) succeeds exactly when resolving
\* Quantifier(ANY, collection, Eq(induction variable, item)) does, fails with
\* the same error otherwise, and on success gives the same resolved
\* quantifier.
C12_ContainsIsAny ==
    (Reached /\ Root.kind = "Contains") =>
        /\ last.ok = AsQuantifier.ok
        /\ last.err = AsQuantifier.err
        /\ last.e = AsQuantifier.e

\* C13: a Quantifier whose predicate resolves to a type that is not boolean
\* fails to resolve; a resolved Quantifier is of boolean type.
C13_QuantifierPredicateIsBoolean ==
    (Reached /\ Root.kind = "Quantifier" /\ last.ok) =>
        /\ last.e.type = BoolType
        /\ last.e.expr.type = BoolType

IsLoop(e) == e.k \in {"MapExpr", "QuantifierExpr"}

\* every induction variable in e has the type of the innermost enclosing loop
\* on that variable, env giving the types of the loops around e by variable
RECURSIVE Scoped(_, _)
Scoped(e, env) ==
    CASE e.k = "VarExpr" ->
            e.name = "Self" \/ (e.name \in DOMAIN env /\ e.type = env[e.name])
      [] e.k = "FieldAccessExpr" -> Scoped(e.receiver_expr, env)
      [] e.k = "EqExpr" -> Scoped(e.lhs, env) /\ Scoped(e.rhs, env)
      [] IsLoop(e) ->
            /\ Scoped(e.collection, env)
            /\ e.induction_var.type = element_type(e.collection.type)
            /\ Scoped(e.expr, [name \in DOMAIN env \cup {e.induction_var.name} |->
                                  IF name = e.induction_var.name
                                  THEN element_type(e.collection.type)
                                  ELSE env[name]])
            /\ (e.k = "MapExpr" =>
                  Scoped(e.filter, [name \in DOMAIN env \cup {e.induction_var.name} |->
                                       IF name = e.induction_var.name
                                       THEN element_type(e.collection.type)
                                       ELSE env[name]]))
      [] OTHER -> TRUE

\* the root is a loop over Self.kids on the default variable, its body Vars.x
LooksUpUnbound ==
    /\ Reached
    /\ Root.kind \in {"Map", "Quantifier"}
    /\ Root.attrs.expr = VarX
    /\ ("induction_var" \in DOMAIN Root.attrs => Root.attrs.induction_var # VarX)
    /\ Root.attrs.collection = Kids

\* C14: in a resolved expression every induction variable has the type of
\* the innermost loop around it that binds it: the elements of that loop's
\* collection, in loops that follow one another as in loops inside one
\* another, and again the outer loop's once the inner one is left; the bind
\* stack is left as it was found; a variable that no loop around it binds
\* fails to resolve, with the KeyError of get_type.
C14_InductionVariableScoping ==
    /\ (Reached /\ last.ok) => (Scoped(last.e, <<>>) /\ bind_stack = last.pre.stack)
    /\ LooksUpUnbound => (~last.ok /\ last.err = "KeyError")

C14_Witness ==
    /\ Reached
    /\ last.ok
    /\ last.e.k = "MapExpr"
    /\ last.e.induction_var.type = NodeA
    /\ last.e.expr.k = "MapExpr"
    /\ last.e.expr.induction_var.type = NodeB
    /\ last.e.expr.expr = VarExpr(NodeB, "Item")
    /\ last.e.filter = FieldAccessExpr(VarExpr(NodeA, "Item"), "flag", BoolType)

\* the root is a Map, a Quantifier or a Contains whose collection resolves
LoopResolved ==
    /\ Reached
    /\ Root.kind \in {"Map", "Quantifier", "Contains"}
    /\ construct(Root.attrs.collection, Before).ok

SourceType == construct(Root.attrs.collection, Before).e.type

\* C15: Map, Quantifier and Contains fail with InvalidCollection when the
\* collection resolves to a type that is neither a list nor an array, and
\* then nothing was pushed on the bind stack; when they resolve, the
\* induction variable has the element type of the resolved collection, in
\* the loop and wherever its body, predicate or filter uses it.
C15_CollectionStep ==
    LoopResolved =>
        IF ~IsCollection(SourceType)
        THEN /\ ~last.ok
             /\ last.err = "InvalidCollection"
             /\ bind_stack = last.pre.stack
        ELSE last.ok =>
                /\ last.e.collection.type = SourceType
                /\ last.e.induction_var.type = element_type(SourceType)
                /\ Scoped(last.e.expr,
                          last.e.induction_var.name :> element_type(SourceType))

C15_Witness ==
    /\ LoopResolved
    /\ Root.kind = "Map"
    /\ SourceType = LongType
    /\ last.err = "InvalidCollection"
    /\ bind_stack = <<>>

\* the state in which the body of the root loop is resolved: the collection
\* resolved, the induction variable bound to its element type
LoopBound ==
    bind_induction_var(construct(Root.attrs.collection, Before).st,
                       props[last.p].expr, element_type(SourceType))

LoopBody == construct(Root.attrs.expr, LoopBound)

LoopFilter == construct(Root.attrs.filter_expr, LoopBody.st)

\* the root is a Map over a collection, and its body resolves
MapResolved ==
    /\ LoopResolved
    /\ Root.kind = "Map"
    /\ IsCollection(SourceType)
    /\ LoopBody.ok

FlattenedType ==
    IF Root.concat THEN element_type(LoopBody.e.type) ELSE LoopBody.e.type

\* C16: a resolved Map has the type array of its body's type; a Mapcat
\* whose body does not resolve to a collection fails with TypeMismatch, and
\* a resolved Mapcat has the type array of the element type of its body's
\* type; a Map whose filter resolves to a type other than boolean fails with
\* TypeMismatch, so the filter of a resolved Map is boolean.
C16_MapTyping ==
    MapResolved =>
        /\ (Root.concat /\ ~IsCollection(LoopBody.e.type)) =>
                (~last.ok /\ last.err = "TypeMismatch")
        /\ ( /\ "filter_expr" \in DOMAIN Root.attrs
             /\ ~Root.concat
             /\ LoopFilter.ok
             /\ LoopFilter.e.type # BoolType ) =>
                (~last.ok /\ last.err = "TypeMismatch")
        /\ last.ok =>
                /\ last.e.expr.type = LoopBody.e.type
                /\ last.e.type = array_type(FlattenedType)
                /\ last.e.filter # NoExpr => last.e.filter.type = BoolType

C16_Witness ==
    /\ MapResolved
    /\ Root.concat
    /\ last.ok
    /\ last.e.expr.type = list_type(NodeB)
    /\ last.e.type = array_type(NodeB)

\* the operands of the root, a BinaryBooleanOperator, resolved one after the
\* other
BoolLhs == construct(Root.attrs.lhs, Before)

BoolRhs == construct(Root.attrs.rhs, BoolLhs.st)

BoolResolved ==
    /\ Reached
    /\ Root.kind = "BinaryBooleanOperator"
    /\ BoolLhs.ok
    /\ BoolRhs.ok

\* C17: when both operands of l & r or l | r resolve, the operator fails
\* with TypeMismatch if one of them is not boolean; otherwise it resolves to
\* a conditional of boolean type whose condition is l, and whose branches
\* are r and the literal False for &, the literal True and r for |.
C17_BooleanDesugaring ==
    BoolResolved =>
        IF BoolLhs.e.type # BoolType \/ BoolRhs.e.type # BoolType
        THEN ~last.ok /\ last.err = "TypeMismatch"
        ELSE /\ last.ok
             /\ last.e.k = "IfExpr"
             /\ last.e.type = BoolType
             /\ last.e.cond = BoolLhs.e
             /\ Root.name = "and" =>
                    /\ last.e.then = BoolRhs.e
                    /\ last.e.else_then = LiteralExpr("False", BoolType)
             /\ Root.name = "or" =>
                    /\ last.e.then = LiteralExpr("True", BoolType)
                    /\ last.e.else_then = BoolRhs.e

C17_Witness ==
    /\ BoolResolved
    /\ Root.name = "or"
    /\ last.ok
    /\ last.e.cond.k = "IfExpr"
    /\ last.e.then = LiteralExpr("True", BoolType)

\* the operand of the root, a Cast, an IsA or an IsNull
UnaryOperand == construct(Root.attrs.expr, Before)

UnaryResolved ==
    /\ Reached
    /\ Root.kind \in {"Cast", "IsA", "IsNull"}
    /\ UnaryOperand.ok

\* C19: a Cast, an IsA or an IsNull whose operand resolves to a type that is
\* not a node type fails; otherwise Cast(expr, T) resolves to a cast of the
\* operand of type T, IsA(expr, T) to a test of boolean type whatever T is,
\* and IsNull(expr) to the equality of the operand and the literal null, of
\* boolean type.
C19_NodeOperators ==
    UnaryResolved =>
        IF ~IsNodeType(UnaryOperand.e.type) THEN ~last.ok
        ELSE /\ last.ok
             /\ Root.kind = "Cast" =>
                    /\ last.e.k = "CastExpr"
                    /\ last.e.expr = UnaryOperand.e
                    /\ last.e.type = Root.ty
             /\ Root.kind = "IsA" =>
                    /\ last.e.k = "IsAExpr"
                    /\ last.e.expr = UnaryOperand.e
                    /\ last.e.type = BoolType
             /\ Root.kind = "IsNull" =>
                    /\ last.e = EqExpr(UnaryOperand.e, LiteralExpr("null", ASTNode))
                    /\ last.e.type = BoolType

C19_Witness ==
    /\ UnaryResolved
    /\ Root.kind = "IsA"
    /\ UnaryOperand.e.type = NodeA
    /\ Root.ty = NodeB
    /\ last.ok
    /\ last.e.type = BoolType

\* the receiver of the root, a FieldAccess, and the table of its type
FieldReceiver == construct(Root.attrs.receiver, Before)

FieldTable == get_abstract_fields_dict(FieldReceiver.e.type)

FieldResolved ==
    /\ Reached
    /\ Root.kind = "FieldAccess"
    /\ FieldReceiver.ok

\* C20: a FieldAccess whose receiver resolves looks its name up in the table
\* of the fields of the receiver's type, inherited ones included: when the
\* name is there it resolves to an access of the field on the resolved
\* receiver, of the field's type; when it is not, it fails with
\* UnresolvedField and the property gets no resolved expression.
C20_FieldAccessResolution ==
    FieldResolved =>
        IF Root.name \in DOMAIN FieldTable
        THEN /\ last.ok
             /\ last.e.k = "FieldAccessExpr"
             /\ last.e.receiver_expr = FieldReceiver.e
             /\ last.e.field = Root.name
             /\ last.e.type = FieldTable[Root.name]
        ELSE /\ ~last.ok
             /\ last.err = "UnresolvedField"
             /\ last.e = NoExpr
             /\ props[last.p].constructed_expr = NoExpr

C20_Witness ==
    /\ FieldResolved
    /\ FieldReceiver.e.type = NodeA
    /\ Root.name = "num"
    /\ last.ok
    /\ last.e.type = LongType

\* the namespace of the last allocation, before and after it
VarsPre == last.pre[last.p]

VarsPost == props[last.p].vars

\* the requested name with the numeric suffix i
Suffixed(i) == last.name \o Name(ToString(i))

\* C18: an allocation that asks for a unique name that is taken fails and
\* leaves the namespace as it was; any other allocation succeeds, adds one
\* variable of the requested type under a name that was free and keeps the
\* other variables, so names stay pairwise distinct; the name is the
\* requested one if it was free, otherwise the requested one with the
\* smallest suffix 1, 2, ... that was free.  The namespaces of the other
\* properties do not change.
C18_LocalVarNames ==
    last.op = "vars" =>
        /\ \A q \in PropIds \ {last.p} : props[q].vars = last.pre[q]
        /\ IF last.create_unique /\ last.name \in DOMAIN VarsPre
           THEN ~last.ok /\ VarsPost = VarsPre
           ELSE /\ last.ok
                /\ last.got \notin DOMAIN VarsPre
                /\ DOMAIN VarsPost = DOMAIN VarsPre \cup {last.got}
                /\ Cardinality(DOMAIN VarsPost) = Cardinality(DOMAIN VarsPre) + 1
                /\ VarsPost[last.got] = last.type
                /\ \A n \in DOMAIN VarsPre : VarsPost[n] = VarsPre[n]
                /\ IF last.name \notin DOMAIN VarsPre
                   THEN last.got = last.name
                   ELSE \E i \in 1..(MaxVars + 1) :
                            /\ last.got = Suffixed(i)
                            /\ \A j \in 1..(i - 1) : Suffixed(j) \in DOMAIN VarsPre

C18_Witness ==
    /\ last.op = "vars"
    /\ ~last.create_unique
    /\ last.ok
    /\ last.name = Name("Result")
    /\ last.got = Name("Result") \o Name("2")
    /\ props[last.p].rendered

\* the nodes that hold n in an attribute, in their tuple or in their dict
Parents(h, n) == {m \in Ids(h) : n \in Owned(h, m)}

\* the nodes of the expression of the property rendered last
Tree == OwnedFrom(heap, {props[last.p].expr}, {})

\* C22: once Property.render has sealed the expression of a property, each
\* node of that expression has at most one parent, Self and the induction
\* variables of the registry are not sealed, and no sealed node has a
\* parent outside that expression.
C22_ExclusiveOwnership ==
    Reached =>
        /\ \A n \in Tree : Cardinality(Parents(heap, n)) <= 1
        /\ ~heap[SelfId].frozen
        /\ \A name \in DOMAIN reg : ~heap[reg[name]].frozen
        /\ \A n \in Ids(heap) : heap[n].frozen => Parents(heap, n) \subseteq Tree

\* the tree of property p as Property.render seals it, before it resolves it
SealedTree(p) == freeze(heap, props[p].expr)

\* a step that is p.render(owner_type) getting as far as self.expr.freeze()
RenderStep(p) ==
    /\ props[p].expr # 0
    /\ ~props[p].rendered
    /\ current = 0
    /\ last'.op = "render"
    /\ last'.p = p
    /\ props'[p].expr = props[p].expr

\* C23: when Property.render has sealed the tree of the property, resolving
\* it leaves each node of the tree as the sealing left it, the
\* induction_var of a Map or Quantifier built without one included.
C23_ResolutionKeepsSealedTree ==
    [][\A p \in PropIds :
          RenderStep(p) =>
              \A n \in OwnedFrom(heap, {props[p].expr}, {}) :
                  heap'[n] = SealedTree(p)[n]]_vars

\* the resolved nodes of e that hold a temporary, each as <<name, type of
\* the node>>, one entry per node
RECURSIVE TempNodes(_)
TempNodes(e) ==
    CASE e.k = "IfExpr" ->
            <<<<e.result_var, e.type>>>> \o TempNodes(e.cond) \o TempNodes(e.then)
                \o TempNodes(e.else_then)
      [] e.k = "MapExpr" ->
            <<<<e.array_var, e.type>>>> \o TempNodes(e.collection)
                \o TempNodes(e.expr) \o TempNodes(e.filter)
      [] e.k = "QuantifierExpr" ->
            <<<<e.result_var, e.type>>>> \o TempNodes(e.collection)
                \o TempNodes(e.expr)
      [] e.k = "EqExpr" -> TempNodes(e.lhs) \o TempNodes(e.rhs)
      [] e.k = "FieldAccessExpr" -> TempNodes(e.receiver_expr)
      [] e.k \in {"CastExpr", "IsAExpr", "NotExpr"} -> TempNodes(e.expr)
      [] OTHER -> <<>>

TempNames(e) == {TempNodes(e)[i][1] : i \in DOMAIN TempNodes(e)}

\* a step that is p.render(owner_type)
RenderOf(p) == last'.op = "render" /\ last'.p = p

\* C21: a render of property p leaves the namespaces of the other
\* properties as they were and keeps the variables p had; when it resolves,
\* each If (those of & and | included), Map and Quantifier (those of
\* Contains included) of the resolved expression has a temporary of its own
\* in the namespace of p, under a name that was free, of the type of the
\* node, and nothing else was added.
C21_TemporaryAllocation ==
    [][\A p \in PropIds :
          RenderOf(p) =>
              /\ \A q \in PropIds \ {p} : props'[q].vars = props[q].vars
              /\ \A n \in DOMAIN props[p].vars : props'[p].vars[n] = props[p].vars[n]
              /\ (last'.ok /\ ~props[p].rendered) =>
                    /\ Cardinality(TempNames(last'.e)) = Len(TempNodes(last'.e))
                    /\ TempNames(last'.e) \cap DOMAIN props[p].vars = {}
                    /\ DOMAIN props'[p].vars =
                            DOMAIN props[p].vars \cup TempNames(last'.e)
                    /\ \A i \in DOMAIN TempNodes(last'.e) :
                            props'[p].vars[TempNodes(last'.e)[i][1]]
                                = TempNodes(last'.e)[i][2]]_vars

C21_Witness ==
    /\ last.op = "render"
    /\ last.ok
    /\ last.p = 1
    /\ props[2].rendered
    /\ last.e.k = "MapExpr"
    /\ last.e.expr.k = "QuantifierExpr"
    /\ Len(TempNodes(last.e)) = 2
    /\ Cardinality(DOMAIN props[1].vars) = 2
    /\ Cardinality(DOMAIN props[2].vars) = 1

====
